---- MODULE Spec2Model ----
(***************************************************************************)
(* A model of the Training Operator charm (src/charm.py): one unit's event *)
(* handlers run one at a time, step by step, against a Kubernetes API and  *)
(* a service-mesh policy manager whose answers are nondeterministic.       *)
(***************************************************************************)
EXTENDS Integers, Sequences, FiniteSets, TLC

VARIABLES
    is_leader,      \* self.unit.is_leader()
    mesh_relation,  \* self._mesh._relation is set
    mesh_type,      \* self._mesh.mesh_type
    status,         \* self.unit.status
    event,          \* the event being handled ("none" between events)
    pc,             \* position inside the running handler
    calls,          \* calls issued to collaborators by the running handler
    raised,         \* the exception that left the running handler
    cluster,        \* resource groups whose objects exist in the cluster
    policies,       \* names of the allow-all policies in the cluster
    crd_idx,        \* ensure_crd_is_deleted: index of the CRD name polled
    attempts,       \* ensure_crd_is_deleted: gets issued by the current call
    elapsed,        \* ensure_crd_is_deleted: seconds since the call started
    handlers        \* the resource handlers of the charm instance handling the event

vars == <<is_leader, mesh_relation, mesh_type, status, event, pc, calls,
          raised, cluster, policies, crd_idx, attempts, elapsed, handlers>>

---------------------------------------------------------------------------
(* Bounds of the model *)

\* longest upstream error message, in tokens
MaxMsgLen == 3

---------------------------------------------------------------------------
(* Messages: sequences of tokens; `in` of Python is contiguous containment *)

Tokens == {"connect:", " ", "no endpoints available"}

Messages == UNION {[1..n -> Tokens] : n \in 0..MaxMsgLen}

Contains(sub, msg) ==
    \E i \in 1..(Len(msg) - Len(sub) + 1) :
        SubSeq(msg, i, i + Len(sub) - 1) = sub

CONNECT == <<"connect:", " ">>
NO_ENDPOINTS == <<"no endpoints available">>

CODE_BAD_REQUEST == 400
CODE_NOT_FOUND == 404
CODE_SERVER_ERROR == 500

Codes == {CODE_BAD_REQUEST, CODE_NOT_FOUND, CODE_SERVER_ERROR}

\* what a call to the Kubernetes API answers: success or an ApiError
Ok == [ok |-> TRUE, code |-> 0, message |-> <<>>]
ApiError(code, message) == [ok |-> FALSE, code |-> code, message |-> message]
ApiErrors == {ApiError(c, m) : c \in Codes, m \in Messages}
DeleteErrors == {ApiError(c, <<>>) : c \in Codes}
\* a collaborator's call that raised something else than an ApiError
Failed == [ok |-> FALSE, code |-> 0, message |-> <<>>]

---------------------------------------------------------------------------
(* Statuses and exceptions *)

ActiveStatus == [name |-> "active", message |-> <<>>]
MaintenanceStatus(msg) == [name |-> "maintenance", message |-> msg]
WaitingStatus(msg) == [name |-> "waiting", message |-> msg]
BlockedStatus(msg) == [name |-> "blocked", message |-> msg]

Exception(type, msg, code, status_type) ==
    [type |-> type, msg |-> msg, code |-> code, status_type |-> status_type]
NoException == Exception("none", <<>>, 0, "none")
ErrorWithStatus(msg, status_type) == Exception("ErrorWithStatus", msg, 0, status_type)
GenericCharmRuntimeError(msg) == Exception("GenericCharmRuntimeError", msg, 0, "none")
RaisedApiError(err) == Exception("ApiError", err.message, err.code, "none")
ObjectStillExistsError == Exception("ObjectStillExistsError", <<>>, 0, "none")
CollaboratorError == Exception("Exception", <<>>, 0, "none")

\* ErrorWithStatus.status: the status type applied to the message
StatusOf(exc) == [name |-> exc.status_type, message |-> exc.msg]

---------------------------------------------------------------------------
(* Construction: names, policies, event bindings *)

AppName == "training-operator"
Namespace == "kubeflow"
MeshTypes == {"istio", "ambient"}

Components == <<"manager", "lws", "jobset">>

generate_allow_all_authorization_policies(app_name, namespace) ==
    [i \in 1..Len(Components) |->
        [name |-> <<app_name, Components[i], "allow-all">>,
         namespace |-> namespace,
         matchLabels |-> <<app_name, Components[i]>>,
         action |-> "ALLOW",
         rules |-> <<"Rule()">>]]

_allow_all_policies == generate_allow_all_authorization_policies(AppName, Namespace)

PolicyNames(ps) == {ps[i].name : i \in 1..Len(ps)}

Events == {"install", "config_changed", "upgrade_charm", "leader_elected",
           "update_status", "remove", "relation_changed", "relation_broken"}

\* variant: leader_elected is observed by _on_install
Handler_LeaderElectedInstalls(e) ==
    CASE e = "upgrade_charm" -> "_on_upgrade"
      [] e \in {"config_changed", "update_status", "relation_changed"} -> "_on_event"
      [] e \in {"install", "leader_elected"} -> "_on_install"
      [] e = "remove" -> "_on_remove"
      [] e = "relation_broken" -> "_remove_authorization_policies"

Handler(e) ==
    CASE e = "upgrade_charm" -> "_on_upgrade"
      [] e \in {"config_changed", "leader_elected", "update_status",
                "relation_changed"} -> "_on_event"
      [] e = "install" -> "_on_install"
      [] e = "remove" -> "_on_remove"
      [] e = "relation_broken" -> "_remove_authorization_policies"

Entry(h) ==
    CASE h \in {"_on_event", "_on_upgrade"} -> "check_leader"
      [] h = "_on_install" -> "apply_begin"
      [] h = "_on_remove" -> "remove_begin"
      [] h = "_remove_authorization_policies" -> "remove_policies"

\* one call to a collaborator: what was called, with what, and what it answered
Call(op, target, args, resp) ==
    [op |-> op, target |-> target, args |-> args, resp |-> resp]

---------------------------------------------------------------------------
ResourceHandlers == {"k8s", "crd", "runtimes", "trainjob"}

\* self._<group>_resource_handler = None in __init__, with the number of times
\* the handler was constructed and its generic resources were loaded
NoHandlers == [g \in ResourceHandlers |-> [obj |-> FALSE, built |-> 0, loaded |-> 0]]

\* variant: the property constructs a handler at every access
Access_Rebuilds(hs, g) ==
    [hs EXCEPT ![g] = [obj |-> TRUE, built |-> @.built + 1, loaded |-> @.loaded + 1]]

\* one read of the property self.<group>_resource_handler
Access(hs, g) ==
    [hs EXCEPT ![g] = [obj |-> TRUE,
                       built |-> IF @.obj THEN @.built ELSE @.built + 1,
                       loaded |-> @.loaded + 1]]

Init ==
    /\ is_leader \in BOOLEAN
    /\ mesh_relation = FALSE
    /\ mesh_type = "none"
    /\ status = MaintenanceStatus(<<>>)
    /\ event = "none"
    /\ pc = "idle"
    /\ calls = <<>>
    /\ raised = NoException
    /\ cluster = {}
    /\ policies = {}
    /\ crd_idx = 0
    /\ attempts = 0
    /\ elapsed = 0
    /\ handlers = NoHandlers

---------------------------------------------------------------------------
(* The environment: leadership and the service-mesh relation *)

LeaderChange ==
    /\ pc = "idle"
    /\ is_leader' = ~is_leader
    /\ UNCHANGED <<mesh_relation, mesh_type, status, event, pc, calls, raised,
                   cluster, policies, crd_idx, attempts, elapsed, handlers>>

MeshRelationCreated ==
    /\ pc = "idle"
    /\ ~mesh_relation
    /\ mesh_relation' = TRUE
    /\ mesh_type' \in MeshTypes
    /\ UNCHANGED <<handlers, is_leader, status, event, pc, calls, raised, cluster,
                   policies, crd_idx, attempts, elapsed>>

---------------------------------------------------------------------------
(* Dispatch of an event to its handler, and the handler's return *)

Emit ==
    /\ pc = "idle"
    /\ \E e \in Events :
        /\ e \in {"relation_changed", "relation_broken"} => mesh_relation
        /\ event' = e
        /\ pc' = Entry(Handler(e))
    /\ calls' = <<>>
    /\ raised' = NoException
    \* the event is handled by a charm instance of its own
    /\ handlers' = NoHandlers
    /\ UNCHANGED <<is_leader, mesh_relation, mesh_type, status, cluster,
                   policies, crd_idx, attempts, elapsed>>

Return ==
    /\ pc = "done"
    /\ pc' = IF event = "remove" /\ raised = NoException THEN "stopped" ELSE "idle"
    /\ mesh_relation' = IF event = "relation_broken" THEN FALSE ELSE mesh_relation
    /\ mesh_type' = IF event = "relation_broken" THEN "none" ELSE mesh_type
    /\ event' = "none"
    /\ calls' = <<>>
    /\ raised' = NoException
    \* the locals of the handler are gone with it
    /\ crd_idx' = 0
    /\ attempts' = 0
    /\ elapsed' = 0
    /\ handlers' = NoHandlers
    /\ UNCHANGED <<is_leader, status, cluster, policies>>

\* variant: GenericCharmRuntimeError is caught like an ErrorWithStatus
Catches_GenericToo(h, exc) ==
    /\ h \in {"_on_event", "_on_upgrade", "_on_install"}
    /\ exc.type \in {"ErrorWithStatus", "GenericCharmRuntimeError"}

\* except ErrorWithStatus in _on_event and _on_install; nothing else is caught
Catches(h, exc) ==
    /\ h \in {"_on_event", "_on_upgrade", "_on_install"}
    /\ exc.type = "ErrorWithStatus"

\* an exception raised inside the handler: caught and turned into a status, or
\* leaving the handler with the status as it was (st)
Raise(exc, st) ==
    /\ pc' = "done"
    /\ IF Catches(Handler(event), exc)
       THEN status' = StatusOf(exc) /\ raised' = NoException
       ELSE status' = st /\ raised' = exc

---------------------------------------------------------------------------
(* _on_event: leadership check, policy reconciliation, apply, Active *)

\* variant: the leadership check never raises
_check_leader_skipped == TRUE

_check_leader == is_leader

CheckLeader ==
    /\ pc = "check_leader"
    /\ IF _check_leader
       THEN pc' = "reconcile_policy" /\ UNCHANGED <<status, raised>>
       ELSE Raise(ErrorWithStatus(<<"Waiting for leadership">>, "waiting"), status)
    /\ UNCHANGED <<handlers, is_leader, mesh_relation, mesh_type, event, calls, cluster,
                   policies, crd_idx, attempts, elapsed>>

\* variant: the policies are reconciled whether or not the relation exists
ReconcileNeeded_Always == TRUE

\* if self._mesh._relation
ReconcileNeeded == mesh_relation

\* variant: only the policy of the first component is handed over
ReconcileArgs_FirstOnly == <<<<>>, mesh_type, SubSeq(_allow_all_policies, 1, 1)>>

ReconcileArgs == <<<<>>, mesh_type, _allow_all_policies>>

\* variant: a failure of the policy reconciliation is swallowed and the handler
\* goes on to apply the resources
_reconcile_policy_resource_manager_swallows ==
    /\ pc = "reconcile_policy"
    /\ IF ReconcileNeeded
       THEN \E ok \in BOOLEAN :
              /\ calls' = Append(calls, Call("reconcile", "policy", ReconcileArgs,
                                             IF ok THEN Ok ELSE Failed))
              /\ policies' = IF ok THEN PolicyNames(ReconcileArgs[3]) ELSE policies
              /\ pc' = "apply_begin"
              /\ UNCHANGED <<status, raised>>
       ELSE /\ pc' = "apply_begin"
            /\ UNCHANGED <<calls, policies, status, raised>>
    /\ UNCHANGED <<handlers, is_leader, mesh_relation, mesh_type, event, cluster,
                   crd_idx, attempts, elapsed>>

_reconcile_policy_resource_manager ==
    /\ pc = "reconcile_policy"
    /\ IF ReconcileNeeded
       THEN \E ok \in BOOLEAN :
              /\ calls' = Append(calls, Call("reconcile", "policy", ReconcileArgs,
                                             IF ok THEN Ok ELSE Failed))
              /\ IF ok
                 THEN /\ policies' = PolicyNames(ReconcileArgs[3])
                      /\ pc' = "apply_begin"
                      /\ UNCHANGED <<status, raised>>
                 ELSE /\ Raise(CollaboratorError, status)
                      /\ UNCHANGED policies
       ELSE /\ pc' = "apply_begin"
            /\ UNCHANGED <<calls, policies, status, raised>>
    /\ UNCHANGED <<handlers, is_leader, mesh_relation, mesh_type, event, cluster,
                   crd_idx, attempts, elapsed>>

\* variant: a process-supervision layer is pushed and the service restarted
\* before Active is set
SetActive_PushesLayer ==
    /\ pc = "set_active"
    /\ calls' = calls \o <<Call("add_layer", "container", <<>>, Ok),
                           Call("restart", "container", <<>>, Ok)>>
    /\ status' = ActiveStatus
    /\ pc' = "done"
    /\ UNCHANGED <<handlers, is_leader, mesh_relation, mesh_type, event, raised,
                   cluster, policies, crd_idx, attempts, elapsed>>

SetActive ==
    /\ pc = "set_active"
    /\ status' = ActiveStatus
    /\ pc' = "done"
    /\ UNCHANGED <<handlers, is_leader, mesh_relation, mesh_type, event, calls, raised,
                   cluster, policies, crd_idx, attempts, elapsed>>

---------------------------------------------------------------------------
(* _apply_k8s_resources *)

Groups == {"crd", "trainjob", "k8s", "runtimes"}

\* variant: the TrainingRuntimes are applied before the core resources
ApplyOrder_RuntimesBeforeCore == <<"crd", "trainjob", "runtimes", "k8s">>

\* the handlers' apply() calls, in program order
ApplyOrder == <<"crd", "trainjob", "k8s", "runtimes">>

ApplyPc(g) == CASE g = "crd" -> "apply_crd"
                [] g = "trainjob" -> "apply_trainjob"
                [] g = "k8s" -> "apply_k8s"
                [] g = "runtimes" -> "apply_runtimes"

IndexOf(g) == CHOOSE i \in 1..Len(ApplyOrder) : ApplyOrder[i] = g

\* variant: _on_event returns without setting Active
AfterApply_NeverActive(h) == "done"

\* variant: _on_install sets Active as well
AfterApply_InstallActive(h) == "set_active"

\* where _on_event / _on_install go on once _apply_k8s_resources has returned
AfterApply(h) == IF h \in {"_on_event", "_on_upgrade"} THEN "set_active" ELSE "done"

\* where the handler goes on after group g's apply() has returned
AfterGroup(g) ==
    IF IndexOf(g) < Len(ApplyOrder)
    THEN ApplyPc(ApplyOrder[IndexOf(g) + 1])
    ELSE AfterApply(Handler(event))

\* variant: the TrainJob CRD group has a try block and a message of its own
CreationFailedPrefix_OwnTrainjob(g) ==
    CASE g = "crd" -> "CRD resources creation failed: "
      [] g = "trainjob" -> "TrainJob resources creation failed: "
      [] g = "k8s" -> "K8s resources creation failed: "
      [] g = "runtimes" -> "TrainingRuntime resources creation failed: "

\* the message prefix of the GenericCharmRuntimeError raised for group g
CreationFailedPrefix(g) ==
    CASE g \in {"crd", "trainjob"} -> "CRD resources creation failed: "
      [] g = "k8s" -> "K8s resources creation failed: "
      [] g = "runtimes" -> "TrainingRuntime resources creation failed: "

CREATING == <<"Creating K8S resources">>
CREATED == <<"K8S resources created">>
POD_NOT_READY == <<"Charm Pod is not ready yet. Will apply TrainingRuntimes later.">>
ENDPOINTS_NOT_READY ==
    <<"Webhook Server Service endpoints not ready. Will apply ClusterServingRuntimes later.">>

\* variant: the "no endpoints available" branch is tested first
RuntimesErrorClass_EndpointsFirst(err) ==
    IF Contains(NO_ENDPOINTS, err.message)
    THEN "no_endpoints"
    ELSE IF err.code = CODE_SERVER_ERROR /\ Contains(CONNECT, err.message)
         THEN "pod_not_ready"
         ELSE "other"

\* variant: the "no endpoints available" branch also asks for code 500
RuntimesErrorClass_EndpointsNeeds500(err) ==
    IF err.code = CODE_SERVER_ERROR /\ Contains(CONNECT, err.message)
    THEN "pod_not_ready"
    ELSE IF err.code = CODE_SERVER_ERROR /\ Contains(NO_ENDPOINTS, err.message)
         THEN "no_endpoints"
         ELSE "other"

\* the branches of `except ApiError` around training_runtimes_resource_handler.apply()
RuntimesErrorClass(err) ==
    IF err.code = CODE_SERVER_ERROR /\ Contains(CONNECT, err.message)
    THEN "pod_not_ready"
    ELSE IF Contains(NO_ENDPOINTS, err.message)
         THEN "no_endpoints"
         ELSE "other"

\* the exception _apply_k8s_resources raises when group g's apply() raised err
\* variant: the two transient conditions are recognised for every group
ApplyException_AnyGroup(g, err) ==
    IF RuntimesErrorClass(err) = "pod_not_ready"
    THEN ErrorWithStatus(POD_NOT_READY, "maintenance")
    ELSE IF RuntimesErrorClass(err) = "no_endpoints"
         THEN ErrorWithStatus(ENDPOINTS_NOT_READY, "maintenance")
         ELSE GenericCharmRuntimeError(<<CreationFailedPrefix(g)>> \o err.message)

ApplyException(g, err) ==
    IF g = "runtimes" /\ RuntimesErrorClass(err) = "pod_not_ready"
    THEN ErrorWithStatus(POD_NOT_READY, "maintenance")
    ELSE IF g = "runtimes" /\ RuntimesErrorClass(err) = "no_endpoints"
         THEN ErrorWithStatus(ENDPOINTS_NOT_READY, "maintenance")
         ELSE GenericCharmRuntimeError(<<CreationFailedPrefix(g)>> \o err.message)

\* the status _apply_k8s_resources itself sets before raising
StatusBeforeRaise(exc) ==
    IF exc.type = "ErrorWithStatus" THEN MaintenanceStatus(exc.msg) ELSE status

\* variant: the status is left as it was when the application starts
ApplyBegin_KeepsStatus ==
    /\ pc = "apply_begin"
    /\ pc' = ApplyPc(ApplyOrder[1])
    /\ UNCHANGED <<handlers, is_leader, mesh_relation, mesh_type, status, event, calls,
                   raised, cluster, policies, crd_idx, attempts, elapsed>>

\* variant: the groups already in the cluster are skipped
ApplyBegin_Resumes ==
    /\ pc = "apply_begin"
    /\ status' = MaintenanceStatus(CREATING)
    /\ pc' = IF \E i \in 1..Len(ApplyOrder) : ApplyOrder[i] \notin cluster
             THEN ApplyPc(ApplyOrder[CHOOSE i \in 1..Len(ApplyOrder) :
                            /\ ApplyOrder[i] \notin cluster
                            /\ \A j \in 1..(i - 1) : ApplyOrder[j] \in cluster])
             ELSE AfterApply(Handler(event))
    /\ UNCHANGED <<handlers, is_leader, mesh_relation, mesh_type, event, calls, raised,
                   cluster, policies, crd_idx, attempts, elapsed>>

ApplyBegin ==
    /\ pc = "apply_begin"
    /\ status' = MaintenanceStatus(CREATING)
    /\ pc' = ApplyPc(ApplyOrder[1])
    /\ UNCHANGED <<handlers, is_leader, mesh_relation, mesh_type, event, calls, raised,
                   cluster, policies, crd_idx, attempts, elapsed>>

\* variant: a failed apply is logged and the next group is applied all the same
Apply_ContinuesAfterFailure(g) ==
    /\ pc = ApplyPc(g)
    /\ \E resp \in {Ok} \cup ApiErrors :
        /\ calls' = Append(calls, Call("apply", g, <<>>, resp))
        /\ cluster' = IF resp.ok THEN cluster \cup {g} ELSE cluster
        /\ pc' = AfterGroup(g)
        /\ status' = IF IndexOf(g) = Len(ApplyOrder)
                     THEN MaintenanceStatus(CREATED) ELSE status
        /\ UNCHANGED raised
    /\ handlers' = Access(handlers, g)
    /\ UNCHANGED <<is_leader, mesh_relation, mesh_type, event, policies,
                   crd_idx, attempts, elapsed>>

\* variant: apply() replaces a group that is already there by deleting it
Apply_ReplacesByDelete(g) ==
    /\ pc = ApplyPc(g)
    /\ \E resp \in {Ok} \cup ApiErrors :
        /\ calls' = Append(calls, Call("apply", g, <<>>, resp))
        /\ IF resp.ok
           THEN /\ cluster' = IF g \in cluster THEN cluster \ {g} ELSE cluster \cup {g}
                /\ pc' = AfterGroup(g)
                /\ status' = IF IndexOf(g) = Len(ApplyOrder)
                             THEN MaintenanceStatus(CREATED) ELSE status
                /\ UNCHANGED raised
           ELSE /\ UNCHANGED cluster
                /\ Raise(ApplyException(g, resp),
                         StatusBeforeRaise(ApplyException(g, resp)))
    /\ handlers' = Access(handlers, g)
    /\ UNCHANGED <<is_leader, mesh_relation, mesh_type, event, policies,
                   crd_idx, attempts, elapsed>>

Apply(g) ==
    /\ pc = ApplyPc(g)
    /\ \E resp \in {Ok} \cup ApiErrors :
        /\ calls' = Append(calls, Call("apply", g, <<>>, resp))
        /\ IF resp.ok
           THEN /\ cluster' = cluster \cup {g}
                /\ pc' = AfterGroup(g)
                /\ status' = IF IndexOf(g) = Len(ApplyOrder)
                             THEN MaintenanceStatus(CREATED) ELSE status
                /\ UNCHANGED raised
           ELSE /\ UNCHANGED cluster
                /\ Raise(ApplyException(g, resp),
                         StatusBeforeRaise(ApplyException(g, resp)))
    /\ handlers' = Access(handlers, g)
    /\ UNCHANGED <<is_leader, mesh_relation, mesh_type, event, policies,
                   crd_idx, attempts, elapsed>>

ApplyCrd == Apply("crd")
ApplyTrainjob == Apply("trainjob")
ApplyK8s == Apply("k8s")
ApplyRuntimes == Apply("runtimes")

---------------------------------------------------------------------------
(* _remove_authorization_policies *)

\* variant: the policies are deleted by any unit
DeleteNeeded_Always == TRUE

\* if self.unit.is_leader()
DeleteNeeded == is_leader

\* variant: relation-broken goes on with the bulk deletes of removal
AfterRemovePolicies_AlwaysDeletes(h) == "delete_trainjob"

\* where the handler goes on once the policies are removed
AfterRemovePolicies(h) == IF h = "_on_remove" THEN "delete_trainjob" ELSE "done"

_remove_authorization_policies ==
    /\ pc = "remove_policies"
    /\ IF DeleteNeeded
       THEN \E ok \in BOOLEAN :
              /\ calls' = Append(calls, Call("delete", "policy", <<>>,
                                             IF ok THEN Ok ELSE Failed))
              /\ IF ok
                 THEN /\ policies' = {}
                      /\ pc' = AfterRemovePolicies(Handler(event))
                      /\ UNCHANGED <<status, raised>>
                 ELSE /\ Raise(CollaboratorError, status)
                      /\ UNCHANGED policies
       ELSE /\ pc' = AfterRemovePolicies(Handler(event))
            /\ UNCHANGED <<calls, policies, status, raised>>
    /\ UNCHANGED <<handlers, is_leader, mesh_relation, mesh_type, event, cluster,
                   crd_idx, attempts, elapsed>>

---------------------------------------------------------------------------
(* _on_remove and ensure_crd_is_deleted *)

REMOVING == <<"Removing K8S resources">>
REMOVED == <<"K8S resources removed">>

\* tenacity.stop_after_delay(300), tenacity.wait_fixed(5)
STOP_AFTER_DELAY == 300
WAIT_FIXED == 5

\* the groups _on_remove renders, in program order
RenderOrder == <<"trainjob", "k8s", "crd">>

\* metadata.name of the CRDs a list of manifest files declares
_extract_crds_names(files) ==
    CASE files = "CRD_TRAINJOB_RESOURCE_FILES" -> <<"trainjobs.trainer.kubeflow.org">>
      [] files = "CRD_RUNTIMES_RESOURCE_FILES" ->
            <<"clustertrainingruntimes.trainer.kubeflow.org",
              "trainingruntimes.trainer.kubeflow.org">>
      [] files = "CRD_JOBSET_RESOURCE_FILES" -> <<"jobsets.jobset.x-k8s.io">>
      [] files = "CRD_LWS_RESOURCE_FILES" -> <<"leaderworkersets.leaderworkerset.x-k8s.io">>

\* variant: the names of every file of the CRD group are polled after its delete
PolledNames_WholeCrdGroup(p) ==
    CASE p = "ensure_trainjob_crd" -> _extract_crds_names("CRD_TRAINJOB_RESOURCE_FILES")
      [] p = "ensure_runtime_crd" ->
            _extract_crds_names("CRD_RUNTIMES_RESOURCE_FILES")
                \o _extract_crds_names("CRD_JOBSET_RESOURCE_FILES")
                \o _extract_crds_names("CRD_LWS_RESOURCE_FILES")

\* the CRD names polled at each of the two polling places of _on_remove
PolledNames(p) ==
    CASE p = "ensure_trainjob_crd" -> _extract_crds_names("CRD_TRAINJOB_RESOURCE_FILES")
      [] p = "ensure_runtime_crd" -> _extract_crds_names("CRD_RUNTIMES_RESOURCE_FILES")

\* variant: the core group is deleted before the CRD group
RemoveSteps_CoreBeforeCrd == <<"delete_trainjob", "ensure_trainjob_crd", "delete_k8s",
                               "delete_crd", "ensure_runtime_crd", "remove_end">>

\* the steps inside the try block of _on_remove, in program order
RemoveSteps == <<"delete_trainjob", "ensure_trainjob_crd", "delete_crd",
                 "ensure_runtime_crd", "delete_k8s", "remove_end">>

StepIndex(p) == CHOOSE i \in 1..Len(RemoveSteps) : RemoveSteps[i] = p
AfterStep(p) == RemoveSteps[StepIndex(p) + 1]

\* what a delete takes out of the cluster: the group's objects and, with the
\* TrainingRuntime CRDs of the CRD group, the TrainingRuntimes declared by them
DeletedObjects(p) == CASE p = "delete_trainjob" -> {"trainjob"}
                       [] p = "delete_crd" -> {"crd", "runtimes"}
                       [] p = "delete_k8s" -> {"k8s"}

\* the handler whose client polls the CRD names
PollingHandler(p) == CASE p = "ensure_trainjob_crd" -> "trainjob"
                       [] p = "ensure_runtime_crd" -> "crd"

DeletedGroup(p) == CASE p = "delete_trainjob" -> "trainjob"
                     [] p = "delete_crd" -> "crd"
                     [] p = "delete_k8s" -> "k8s"

\* variant: a 404 is dropped inside the step that raised it and the removal goes on
RemoveExcept_ContinuesAfter404(exc) ==
    IF exc.type = "ApiError" /\ exc.code = CODE_NOT_FOUND
    THEN /\ pc' = AfterStep(pc)
         /\ UNCHANGED <<status, raised>>
    ELSE Raise(exc, status)

\* variant: every ApiError is raised again, a 404 included
RemoveExcept_ReraisesAll(exc) == Raise(exc, status)

\* variant: except Exception: pass
RemoveExcept_SwallowsAll(exc) ==
    /\ pc' = "remove_end"
    /\ UNCHANGED <<status, raised>>

\* except ApiError in _on_remove: a 404 is dropped and the handler goes on after
\* the try block; anything else is raised again
RemoveExcept(exc) ==
    IF exc.type = "ApiError" /\ exc.code = CODE_NOT_FOUND
    THEN /\ pc' = "remove_end"
         /\ UNCHANGED <<status, raised>>
    ELSE Raise(exc, status)

\* variant: the status is left as it was when the removal starts
RemoveBegin_NoStatus ==
    /\ pc = "remove_begin"
    /\ calls' = calls \o [i \in 1..Len(RenderOrder) |->
                            Call("render_manifests", RenderOrder[i], <<>>, Ok)]
    /\ pc' = "remove_policies"
    /\ handlers' = Access(Access(Access(handlers, RenderOrder[1]), RenderOrder[2]),
                          RenderOrder[3])
    /\ UNCHANGED <<is_leader, mesh_relation, mesh_type, status, event, raised,
                   cluster, policies, crd_idx, attempts, elapsed>>

RemoveBegin ==
    /\ pc = "remove_begin"
    /\ status' = MaintenanceStatus(REMOVING)
    /\ calls' = calls \o [i \in 1..Len(RenderOrder) |->
                            Call("render_manifests", RenderOrder[i], <<>>, Ok)]
    /\ pc' = "remove_policies"
    /\ handlers' = Access(Access(Access(handlers, RenderOrder[1]), RenderOrder[2]),
                          RenderOrder[3])
    /\ UNCHANGED <<is_leader, mesh_relation, mesh_type, event, raised, cluster,
                   policies, crd_idx, attempts, elapsed>>

DeleteMany(p) ==
    /\ pc = p
    /\ \E resp \in {Ok} \cup DeleteErrors :
        /\ calls' = Append(calls, Call("delete_many", DeletedGroup(p), <<>>, resp))
        /\ IF resp.ok
           THEN /\ cluster' = cluster \ DeletedObjects(p)
                /\ pc' = AfterStep(p)
                /\ UNCHANGED <<status, raised>>
           ELSE /\ UNCHANGED cluster
                /\ RemoveExcept(RaisedApiError(resp))
    /\ crd_idx' = 1
    /\ attempts' = 0
    /\ elapsed' = 0
    /\ handlers' = Access(handlers, DeletedGroup(p))
    /\ UNCHANGED <<is_leader, mesh_relation, mesh_type, event, policies>>

DeleteTrainjob == DeleteMany("delete_trainjob")
DeleteCrd == DeleteMany("delete_crd")
DeleteK8s == DeleteMany("delete_k8s")

\* what client.get(CustomResourceDefinition) answers: the CRD, or an ApiError
GetFound == Ok
GetErrors == DeleteErrors

\* the exception one attempt of ensure_crd_is_deleted ends with ("none": it returned)
AttemptException(resp) ==
    IF resp.ok THEN ObjectStillExistsError
    ELSE IF resp.code = CODE_NOT_FOUND THEN NoException
         ELSE RaisedApiError(resp)

\* variant: one more attempt is made once the delay has elapsed
StopAfterDelay_Late(t) == t > STOP_AFTER_DELAY

\* tenacity stops retrying once the delay has elapsed
StopAfterDelay(t) == t >= STOP_AFTER_DELAY

EnsureCrdIsDeleted(p) ==
    /\ pc = p
    /\ \E resp \in {GetFound} \cup GetErrors :
        LET exc == AttemptException(resp)
            name == PolledNames(p)[crd_idx]
            \* the first attempt of a call is the one made with no time elapsed
            made == IF elapsed = 0 THEN 1 ELSE attempts + 1
            done == Call("ensure_crd_is_deleted", name, <<>>, resp)
        IN  /\ attempts' = made
            /\ IF exc = NoException
               THEN \* returned: the next name, or the next step of _on_remove
                    /\ calls' = Append(calls, done)
                    /\ IF crd_idx < Len(PolledNames(p))
                       THEN crd_idx' = crd_idx + 1 /\ pc' = p
                       ELSE crd_idx' = 1 /\ pc' = AfterStep(p)
                    /\ elapsed' = 0
                    /\ UNCHANGED <<status, raised>>
               ELSE IF StopAfterDelay(elapsed)
                    THEN \* reraise=True: the last exception leaves the call
                         /\ calls' = Append(calls, done)
                         /\ RemoveExcept(exc)
                         /\ UNCHANGED <<crd_idx, elapsed>>
                    ELSE \* wait and poll again
                         /\ elapsed' = elapsed + WAIT_FIXED
                         /\ UNCHANGED <<pc, calls, crd_idx, status, raised>>
    \* the client argument is read once per call, before the first attempt
    /\ handlers' = IF elapsed = 0 THEN Access(handlers, PollingHandler(p)) ELSE handlers
    /\ UNCHANGED <<is_leader, mesh_relation, mesh_type, event, cluster, policies>>

EnsureTrainjobCrd == EnsureCrdIsDeleted("ensure_trainjob_crd")
EnsureRuntimeCrd == EnsureCrdIsDeleted("ensure_runtime_crd")

RemoveEnd ==
    /\ pc = "remove_end"
    /\ status' = MaintenanceStatus(REMOVED)
    /\ pc' = "done"
    /\ UNCHANGED <<handlers, is_leader, mesh_relation, mesh_type, event, calls, raised,
                   cluster, policies, crd_idx, attempts, elapsed>>

---------------------------------------------------------------------------
Next ==
    \/ LeaderChange
    \/ MeshRelationCreated
    \/ Emit
    \/ Return
    \/ CheckLeader
    \/ _reconcile_policy_resource_manager
    \/ ApplyBegin
    \/ ApplyCrd
    \/ ApplyTrainjob
    \/ ApplyK8s
    \/ ApplyRuntimes
    \/ SetActive
    \/ _remove_authorization_policies
    \/ RemoveBegin
    \/ DeleteTrainjob
    \/ EnsureTrainjobCrd
    \/ DeleteCrd
    \/ EnsureRuntimeCrd
    \/ DeleteK8s
    \/ RemoveEnd

Spec == Init /\ [][Next]_vars

\* a step of the handler that is running: the framework runs a dispatched
\* handler to its end
Handle == pc # "idle" /\ Next

FairSpec == Spec /\ WF_vars(Handle)

TypeOK ==
    /\ is_leader \in BOOLEAN
    /\ mesh_relation \in BOOLEAN
    /\ mesh_type \in MeshTypes \cup {"none"}
    /\ status.name \in {"active", "maintenance", "waiting", "blocked"}
    /\ event \in Events \cup {"none"}
    /\ cluster \subseteq Groups
    /\ policies \subseteq PolicyNames(_allow_all_policies)
    /\ elapsed \in 0..STOP_AFTER_DELAY
    /\ \A g \in ResourceHandlers :
          /\ handlers[g].obj \in BOOLEAN
          /\ handlers[g].built \in 0..1
          /\ handlers[g].loaded \in 0..4

---------------------------------------------------------------------------
(* Properties *)

ReconcileHandlers == {"_on_event", "_on_upgrade"}

Handling(hs) == event \in Events /\ Handler(event) \in hs

Mutating(c) == c.op \in {"apply", "delete_many", "reconcile", "delete"}

IsApply(c) == c.op = "apply"
IsPolicyCall(c) == c.target = "policy"
IsPolicyDelete(c) == c.op = "delete" /\ c.target = "policy"

Applies == SelectSeq(calls, IsApply)
PolicyCalls == SelectSeq(calls, IsPolicyCall)

LastCall == calls[Len(calls)]

\* the running handler's last call was group g's apply(), and it raised an ApiError
ApplyFailedLast(g) ==
    /\ pc = "done"
    /\ Len(calls) > 0
    /\ LastCall.op = "apply"
    /\ LastCall.target = g
    /\ ~LastCall.resp.ok

WAITING_FOR_LEADERSHIP == [name |-> "waiting", message |-> <<"Waiting for leadership">>]
CREATING_K8S == [name |-> "maintenance", message |-> <<"Creating K8S resources">>]
POD_NOT_READY_STATUS ==
    [name |-> "maintenance",
     message |-> <<"Charm Pod is not ready yet. Will apply TrainingRuntimes later.">>]
ENDPOINTS_NOT_READY_STATUS ==
    [name |-> "maintenance",
     message |-> <<"Webhook Server Service endpoints not ready. Will apply ClusterServingRuntimes later.">>]

\* the two transient conditions, as the code tests them
PodNotReady(resp) == resp.code = 500 /\ Contains(<<"connect:", " ">>, resp.message)
NoEndpoints(resp) == Contains(<<"no endpoints available">>, resp.message)

\* C1 as stated: at the end of the handling of any event by a unit that is not
\* the leader, no cluster-mutating call has been issued and the status is
\* Waiting("Waiting for leadership").
C1_NonLeaderAnyEvent ==
    (pc = "done" /\ ~is_leader) =>
        /\ \A i \in 1..Len(calls) : ~Mutating(calls[i])
        /\ status = WAITING_FOR_LEADERSHIP

\* C1 amended: while a unit that is not the leader handles config-changed,
\* leader-elected, update-status, upgrade-charm or service-mesh relation-changed,
\* it issues no call at all, and the handler ends normally with status
\* Waiting("Waiting for leadership").
C1_NonLeaderReconcile ==
    (Handling(ReconcileHandlers) /\ ~is_leader) =>
        /\ calls = <<>>
        /\ pc \in {"check_leader", "done"}
        /\ pc = "done" => (status = WAITING_FOR_LEADERSHIP /\ raised = NoException)

C1_Witness ==
    /\ pc = "done"
    /\ ~is_leader
    /\ event = "config_changed"
    /\ status = WAITING_FOR_LEADERSHIP

\* the groups whose apply() returned successfully in the running handler
AppliedOk == {calls[i].target : i \in {j \in 1..Len(calls) :
                                        IsApply(calls[j]) /\ calls[j].resp.ok}}

\* C2: when the leader has handled a reconcile event in which the four group
\* applies all succeeded, the handler ends normally with status Active.
C2_ActiveAfterSuccess ==
    (pc = "done" /\ Handling(ReconcileHandlers) /\ is_leader
        /\ AppliedOk = {"crd", "trainjob", "k8s", "runtimes"}) =>
        (status = [name |-> "active", message |-> <<>>] /\ raised = NoException)

C2_Witness ==
    /\ pc = "done"
    /\ event = "update_status"
    /\ is_leader
    /\ ~mesh_relation
    /\ AppliedOk = {"crd", "trainjob", "k8s", "runtimes"}
    /\ status.name = "active"

\* C3: within one event handling the applies are issued in the order CRD,
\* TrainJob-CRD, core K8s, TrainingRuntimes, and each one only after every
\* earlier one has returned successfully.
C3_ApplyOrder ==
    \A i \in 1..Len(Applies) :
        /\ i <= 4
        /\ Applies[i].target = <<"crd", "trainjob", "k8s", "runtimes">>[i]
        /\ \A j \in 1..(i - 1) : Applies[j].resp.ok

C3_Witness ==
    /\ Len(Applies) = 4
    /\ Applies[4].target = "runtimes"
    /\ Applies[3].resp.ok

\* C4: once an apply has failed with an API error, the handling issues no
\* further call, is over, and has not set the status to Active.
C4_NoContinuation ==
    \A i \in 1..Len(calls) :
        (IsApply(calls[i]) /\ ~calls[i].resp.ok) =>
            /\ i = Len(calls)
            /\ pc = "done"
            /\ status.name # "active"

C4_Witness ==
    /\ ApplyFailedLast("k8s")
    /\ Handling(ReconcileHandlers)
    /\ Len(calls) = 3

\* C5 as stated: a TrainingRuntimes apply failing with code 500 and a message
\* containing "connect:" ends the handler normally with the "Charm Pod is not
\* ready yet" Maintenance status.
C5_ConnectNoSpace ==
    (ApplyFailedLast("runtimes") /\ LastCall.resp.code = 500
        /\ Contains(<<"connect:">>, LastCall.resp.message)) =>
        (raised = NoException /\ status = POD_NOT_READY_STATUS)

\* C5 amended: a TrainingRuntimes apply failing with code 500 and a message
\* containing "connect: " (the colon followed by a space) ends the handler
\* normally with the "Charm Pod is not ready yet" Maintenance status.
C5_PodNotReady ==
    (ApplyFailedLast("runtimes") /\ LastCall.resp.code = 500
        /\ Contains(<<"connect:", " ">>, LastCall.resp.message)) =>
        (raised = NoException /\ status = POD_NOT_READY_STATUS)

C5_Witness ==
    /\ ApplyFailedLast("runtimes")
    /\ LastCall.resp.code = 500
    /\ LastCall.resp.message = <<"connect:", " ", "no endpoints available">>
    /\ status = POD_NOT_READY_STATUS

\* C6 as stated: a TrainingRuntimes apply failing with a message containing
\* "no endpoints available", whatever its code and the rest of the message,
\* ends the handler normally with the "Webhook Server Service endpoints not
\* ready" Maintenance status.
C6_EndpointsWhatever ==
    (ApplyFailedLast("runtimes") /\ NoEndpoints(LastCall.resp)) =>
        (raised = NoException /\ status = ENDPOINTS_NOT_READY_STATUS)

\* C6 amended: the same, unless the code is 500 and the message also contains
\* "connect: " (that error gets the "Charm Pod is not ready yet" status).
C6_EndpointsNotReady ==
    (ApplyFailedLast("runtimes") /\ NoEndpoints(LastCall.resp)
        /\ ~PodNotReady(LastCall.resp)) =>
        (raised = NoException /\ status = ENDPOINTS_NOT_READY_STATUS)

C6_Witness ==
    /\ ApplyFailedLast("runtimes")
    /\ LastCall.resp.code = 400
    /\ LastCall.resp.message = <<"connect:", " ", "no endpoints available">>
    /\ status = ENDPOINTS_NOT_READY_STATUS

\* the message of the creation failure of group g, as the claims give it
CreationFailed(g, message) ==
    <<CASE g \in {"crd", "trainjob"} -> "CRD resources creation failed: "
        [] g = "k8s" -> "K8s resources creation failed: "
        [] g = "runtimes" -> "TrainingRuntime resources creation failed: ">> \o message

\* a failed apply of group g that the code does not downgrade to Maintenance
FatalApplyFailure(g) ==
    /\ ApplyFailedLast(g)
    /\ g = "runtimes" => (~PodNotReady(LastCall.resp) /\ ~NoEndpoints(LastCall.resp))

EXPECTED_POLICY_NAMES ==
    <<<<"training-operator", "manager", "allow-all">>,
      <<"training-operator", "lws", "allow-all">>,
      <<"training-operator", "jobset", "allow-all">>>>

\* the running reconcile handler is past _reconcile_policy_resource_manager
PastReconcile ==
    /\ Handling(ReconcileHandlers)
    /\ is_leader
    /\ pc \notin {"check_leader", "reconcile_policy"}

\* C9: one invocation of _reconcile_policy_resource_manager issues no call to
\* the policy manager when there is no service-mesh relation, and exactly one
\* reconcile call, with an empty managed-policy list and the 3 generated
\* allow-all policies, when there is one.
C9_PolicyReconcile ==
    PastReconcile =>
        IF mesh_relation
        THEN /\ Len(PolicyCalls) = 1
             /\ PolicyCalls[1].op = "reconcile"
             /\ PolicyCalls[1].args[1] = <<>>
             /\ Len(PolicyCalls[1].args[3]) = 3
             /\ \A i \in 1..3 :
                    /\ PolicyCalls[1].args[3][i].name = EXPECTED_POLICY_NAMES[i]
                    /\ PolicyCalls[1].args[3][i].action = "ALLOW"
        ELSE PolicyCalls = <<>>

C9_Witness ==
    /\ PastReconcile
    /\ mesh_relation
    /\ pc = "apply_begin"
    /\ Len(PolicyCalls) = 1

\* C10: every relation-broken and every remove handling issues exactly one
\* delete call on the policy manager, leader or not.
C10_UnconditionalDelete ==
    (pc = "done" /\ event \in {"relation_broken", "remove"}) =>
        Len(SelectSeq(calls, IsPolicyDelete)) = 1

IsReconcile(c) == c.op = "reconcile" /\ c.target = "policy"
ReconcileCalls == SelectSeq(calls, IsReconcile)

\* C11: while a reconcile event is handled the stages run in the order
\* leadership check, policy reconciliation, resource application, status
\* resolution: no call is issued unless the leadership check has passed, the
\* policy reconciliation call comes before every apply and has returned
\* successfully when an apply is issued, a policy reconciliation that raised
\* leaves the handler with no group applied, and the final status is set only
\* once the four applies have been issued.
C11_ReconcileStages ==
    Handling(ReconcileHandlers) =>
        /\ pc \notin {"check_leader", "done"} => is_leader
        /\ calls # <<>> => is_leader
        /\ \A i \in 1..Len(calls) : IsReconcile(calls[i]) => i = 1
        /\ \A i \in 1..Len(calls) : IsReconcile(calls[i]) \/ IsApply(calls[i])
        /\ (Applies # <<>> \/ pc \in {"apply_begin", "set_active"}) =>
              /\ mesh_relation => ReconcileCalls # <<>>
              /\ \A i \in 1..Len(ReconcileCalls) : ReconcileCalls[i].resp.ok
        /\ (ReconcileCalls # <<>> /\ ~ReconcileCalls[1].resp.ok) =>
              /\ pc = "done"
              /\ Applies = <<>>
              /\ raised = CollaboratorError
        /\ pc = "set_active" => Len(Applies) = Len(ApplyOrder)

C11_Witness ==
    /\ pc = "done"
    /\ event = "relation_changed"
    /\ is_leader
    /\ Len(calls) = 1
    /\ IsReconcile(calls[1])
    /\ ~calls[1].resp.ok
    /\ raised = CollaboratorError

\* a call that completed successfully: a delete, render or policy call that
\* returned, an absence poll that ended with the CRD gone
Succeeded(c) ==
    IF c.op = "ensure_crd_is_deleted"
    THEN ~c.resp.ok /\ c.resp.code = CODE_NOT_FOUND
    ELSE c.resp.ok

AllSucceeded == \A i \in 1..Len(calls) : Succeeded(calls[i])

REMOVING_STATUS == [name |-> "maintenance", message |-> <<"Removing K8S resources">>]
REMOVED_STATUS == [name |-> "maintenance", message |-> <<"K8S resources removed">>]

\* C12: the remove handler sets Maintenance("Removing K8S resources") before
\* any render or delete, and when every delete and every absence poll has
\* succeeded it ends without an exception, with the status
\* Maintenance("K8S resources removed").
C12_RemoveStatus ==
    Handling({"_on_remove"}) =>
        /\ pc = "remove_begin" => calls = <<>>
        /\ calls # <<>> => status \in {REMOVING_STATUS, REMOVED_STATUS}
        /\ pc \notin {"remove_begin", "done"} => status = REMOVING_STATUS
        /\ (pc = "done" /\ AllSucceeded) =>
              /\ raised = NoException
              /\ status = REMOVED_STATUS

C12_Witness ==
    /\ pc = "done"
    /\ event = "remove"
    /\ ~is_leader
    /\ AllSucceeded
    /\ Len(SelectSeq(calls, LAMBDA c : c.op = "delete_many")) = 3
    /\ status = REMOVED_STATUS

Range(seq) == {seq[i] : i \in 1..Len(seq)}

\* the place of a call in the removal sequence
Stage(c) ==
    CASE c.op = "render_manifests" -> 1
      [] c.op = "delete" /\ c.target = "policy" -> 2
      [] c.op = "delete_many" /\ c.target = "trainjob" -> 3
      [] c.op = "ensure_crd_is_deleted"
            /\ c.target \in Range(_extract_crds_names("CRD_TRAINJOB_RESOURCE_FILES")) -> 4
      [] c.op = "delete_many" /\ c.target = "crd" -> 5
      [] c.op = "ensure_crd_is_deleted"
            /\ c.target \in Range(_extract_crds_names("CRD_RUNTIMES_RESOURCE_FILES")) -> 6
      [] c.op = "delete_many" /\ c.target = "k8s" -> 7
      [] OTHER -> 0

AtStage(n) == SelectSeq(calls, LAMBDA c : Stage(c) = n)

C14_DeleteError ==
    (Handling({"_on_remove"}) /\ calls # <<>>) =>
        /\ \A i \in 1..Len(calls) :
              (calls[i].op = "delete_many" /\ ~calls[i].resp.ok
                  /\ calls[i].resp.code # CODE_NOT_FOUND) =>
                  /\ i = Len(calls)
                  /\ pc = "done"
                  /\ raised = RaisedApiError(calls[i].resp)
                  /\ status = REMOVING_STATUS
        /\ (pc = "done" /\ LastCall.op = "delete_many" /\ ~LastCall.resp.ok
               /\ LastCall.resp.code = CODE_NOT_FOUND) =>
              /\ raised = NoException
              /\ status = REMOVED_STATUS

C14_Witness ==
    /\ pc = "done"
    /\ event = "remove"
    /\ LastCall.op = "delete_many"
    /\ LastCall.target = "crd"
    /\ LastCall.resp = ApiError(CODE_NOT_FOUND, <<>>)
    /\ raised = NoException
    /\ status = REMOVED_STATUS

EnsurePcs == {"ensure_trainjob_crd", "ensure_runtime_crd"}

\* the largest number of gets one call of ensure_crd_is_deleted can make
MaxAttempts == STOP_AFTER_DELAY \div WAIT_FIXED + 1

\* one step taken inside ensure_crd_is_deleted
PollStep ==
    pc \in EnsurePcs =>
        /\ attempts' = elapsed \div WAIT_FIXED + 1
        /\ attempts' <= MaxAttempts
        /\ IF calls' = calls
           THEN /\ elapsed < STOP_AFTER_DELAY
                /\ elapsed' = elapsed + WAIT_FIXED
                /\ pc' = pc
           ELSE LET c == calls'[Len(calls')]
                IN  /\ Len(calls') = Len(calls) + 1
                    /\ c.op = "ensure_crd_is_deleted"
                    /\ Succeeded(c) =>
                          /\ raised' = NoException
                          /\ pc' \in EnsurePcs \cup {"delete_crd", "delete_k8s"}
                    /\ c.resp.ok =>
                          /\ elapsed = STOP_AFTER_DELAY
                          /\ attempts' = MaxAttempts
                          /\ raised' = ObjectStillExistsError
                          /\ pc' = "done"

\* C15: every step of ensure_crd_is_deleted is a get; one that fails within the
\* 300 s budget is followed by a wait of 5 s, so the call that ends at its
\* (N+1)-th get has seen N failed polls; a get answering 404 makes the call
\* return at once, and a get that finds the CRD once the budget has elapsed
\* makes the call raise ObjectStillExistsError, after 61 gets.
C15_PollTerminates == [][PollStep]_vars

C15_Witness ==
    /\ pc = "delete_crd"
    /\ LastCall.op = "ensure_crd_is_deleted"
    /\ Succeeded(LastCall)
    /\ attempts = MaxAttempts

\* C16: when an absence poll of the removal ends with the CRD still present
\* once its budget has elapsed, ObjectStillExistsError leaves the remove
\* handler, the poll is the handler's last call (no bulk delete follows) and the
\* status stays Maintenance("Removing K8S resources").
C16_PollTimeout ==
    Handling({"_on_remove"}) =>
        \A i \in 1..Len(calls) :
            (calls[i].op = "ensure_crd_is_deleted" /\ calls[i].resp.ok) =>
                /\ i = Len(calls)
                /\ pc = "done"
                /\ raised = ObjectStillExistsError
                /\ status = REMOVING_STATUS

C16_Witness ==
    /\ pc = "done"
    /\ event = "remove"
    /\ LastCall.op = "ensure_crd_is_deleted"
    /\ LastCall.target = "trainjobs.trainer.kubeflow.org"
    /\ LastCall.resp.ok
    /\ attempts = MaxAttempts
    /\ AtStage(5) = <<>>
    /\ raised = ObjectStillExistsError

\* a reconcile handling that ended in a transient Maintenance status or in an
\* exception that left the handler
Stalled ==
    /\ pc = "done"
    /\ Handling(ReconcileHandlers)
    /\ is_leader
    /\ \/ raised # NoException
       \/ status \in {POD_NOT_READY_STATUS, ENDPOINTS_NOT_READY_STATUS}

\* the leader is handling a reconcile event: the leadership check has passed
Delivered == pc = "reconcile_policy"

AppliesOk == \A i \in 1..Len(calls) : IsApply(calls[i]) => calls[i].resp.ok
PolicyOk == \A i \in 1..Len(calls) : IsReconcile(calls[i]) => calls[i].resp.ok

\* whatever the status and the cluster are, a reconcile event starts at the
\* leadership check with nothing carried over, and the application starts at
\* the first group
RestartStep ==
    /\ (pc = "idle" /\ pc' # "idle" /\ Handler(event') \in ReconcileHandlers) =>
          (pc' = "check_leader" /\ calls' = <<>> /\ raised' = NoException)
    /\ (pc = "check_leader" /\ is_leader) => pc' = "reconcile_policy"
    /\ pc = "apply_begin" => pc' = ApplyPc("crd")

\* C17 as stated: if reconcile events keep being handled by the leader and the
\* applies eventually stop failing, a handling that ended in a transient
\* Maintenance status or in a propagated failure is eventually followed by
\* status Active.
C17_EventuallyActive ==
    ([]<>Delivered /\ <>[]AppliesOk) => (Stalled ~> (status = ActiveStatus))

\* C17 amended: a reconcile event restarts at the leadership check and the
\* first group, and if reconcile events keep being handled by the leader and
\* both the applies and the policy reconciliation eventually stop failing, a
\* handling that ended in a transient Maintenance status or in a propagated
\* failure is eventually followed by status Active.
C17_RetryFromStart ==
    /\ [][RestartStep]_vars
    /\ ([]<>Delivered /\ <>[]AppliesOk /\ <>[]PolicyOk) =>
          (Stalled ~> (status = ActiveStatus))

C17_Witness ==
    /\ pc = "reconcile_policy"
    /\ is_leader
    /\ event = "update_status"
    /\ calls = <<>>
    /\ status = POD_NOT_READY_STATUS
    /\ {"crd", "trainjob", "k8s"} \subseteq cluster

\* what a reconcile handling of the leader that met no failure leaves behind
Reconciled ==
    /\ Groups \subseteq cluster
    /\ mesh_relation => policies = PolicyNames(_allow_all_policies)

\* a step of a reconcile handling that starts from what an earlier one left
SecondRunStep ==
    (Handling(ReconcileHandlers) /\ is_leader /\ Reconciled) =>
        /\ cluster' = cluster
        /\ policies' = policies
        /\ (pc # "done" /\ pc' = "done" /\ AppliesOk' /\ PolicyOk') =>
              (status' = ActiveStatus /\ raised' = NoException)

C19_PoliciesAllOrNone ==
    /\ policies \in {{}, Range(EXPECTED_POLICY_NAMES)}
    /\ Len(_allow_all_policies) = 3
    /\ \A i \in 1..Len(calls) :
          IsReconcile(calls[i]) =>
              [j \in 1..Len(calls[i].args[3]) |-> calls[i].args[3][j].name]
                  = EXPECTED_POLICY_NAMES

C19_Witness ==
    /\ pc = "done"
    /\ event = "relation_changed"
    /\ is_leader
    /\ ReconcileCalls # <<>>
    /\ PolicyOk
    /\ policies = Range(EXPECTED_POLICY_NAMES)

\* C20: when a reconcile handling by the leader has ended with no service-mesh
\* relation, and when a relation-broken handling has ended, none of the
\* allow-all policies is left in the cluster.
C20_NoPolicyWithoutRelation ==
    /\ (pc = "done" /\ Handling(ReconcileHandlers) /\ is_leader /\ ~mesh_relation
           /\ raised = NoException) => policies = {}
    /\ (pc = "done" /\ event = "relation_broken" /\ raised = NoException) =>
           policies = {}

IsPrefix(a, b) == Len(a) <= Len(b) /\ a = SubSeq(b, 1, Len(a))

CallNames == [i \in 1..Len(calls) |-> <<calls[i].op, calls[i].target>>]

CREATED_STATUS == [name |-> "maintenance", message |-> <<"K8S resources created">>]

\* the calls of a reconciliation in which nothing fails
ReconcileSequence ==
    (IF mesh_relation THEN <<<<"reconcile", "policy">>>> ELSE <<>>)
        \o <<<<"apply", "crd">>, <<"apply", "trainjob">>, <<"apply", "k8s">>,
             <<"apply", "runtimes">>>>

\* what the handling of an event of evs has come to at its end, as a function of
\* leadership, relation and the answers of the cluster only
SameOutcome(evs) ==
    (event \in evs /\ pc = "done") =>
        IF ~is_leader
        THEN calls = <<>> /\ status = WAITING_FOR_LEADERSHIP /\ raised = NoException
        ELSE /\ IsPrefix(CallNames, ReconcileSequence)
             /\ \A i \in 1..(Len(calls) - 1) : calls[i].resp.ok
             /\ IF calls # <<>> /\ ~LastCall.resp.ok
                THEN IF LastCall.op = "reconcile"
                     THEN raised = CollaboratorError
                     ELSE IF LastCall.target = "runtimes" /\ PodNotReady(LastCall.resp)
                     THEN status = POD_NOT_READY_STATUS /\ raised = NoException
                     ELSE IF LastCall.target = "runtimes" /\ NoEndpoints(LastCall.resp)
                     THEN status = ENDPOINTS_NOT_READY_STATUS /\ raised = NoException
                     ELSE /\ status = CREATING_K8S
                          /\ raised = GenericCharmRuntimeError(
                                 CreationFailed(LastCall.target, LastCall.resp.message))
                ELSE /\ CallNames = ReconcileSequence
                     /\ status = ActiveStatus
                     /\ raised = NoException

\* C21 as stated: install, config-changed, upgrade-charm, leader-elected and
\* update-status all end, for the same leadership, relation and cluster
\* answers, with the same policy and apply calls and the same status.
C21_InstallReconciles ==
    SameOutcome({"install", "config_changed", "upgrade_charm", "leader_elected",
                 "update_status"})

\* C21 amended: config-changed, upgrade-charm, leader-elected and update-status
\* all end, for the same leadership, relation and cluster answers, with the same
\* policy and apply calls and the same status; install issues the four applies
\* only, leader or not, and ends in Maintenance("K8S resources created") when
\* they succeed.
C21_SameReconcile ==
    /\ SameOutcome({"config_changed", "upgrade_charm", "leader_elected",
                    "update_status"})
    /\ (event = "install" /\ pc = "done") =>
          /\ IsPrefix(CallNames, <<<<"apply", "crd">>, <<"apply", "trainjob">>,
                                   <<"apply", "k8s">>, <<"apply", "runtimes">>>>)
          /\ calls # <<>>
          /\ AppliedOk = Groups => status = CREATED_STATUS

C21_Witness ==
    /\ pc = "done"
    /\ event = "install"
    /\ ~is_leader
    /\ mesh_relation
    /\ AppliedOk = Groups
    /\ status = CREATED_STATUS

LayerCalls == SelectSeq(calls, LAMBDA c : c.op = "add_layer")
RestartCalls == SelectSeq(calls, LAMBDA c : c.op = "restart")

\* C23 as stated: a successful reconcile on the leader pushes one
\* process-supervision layer and restarts the service once.
C23_OnePushOneRestart ==
    (pc = "done" /\ Handling(ReconcileHandlers) /\ is_leader /\ AppliedOk = Groups) =>
        (Len(LayerCalls) = 1 /\ Len(RestartCalls) = 1)

\* C23 amended: no handler pushes a layer or restarts a service; the only calls
\* issued are the policy reconcile and delete, the applies, the renders, the
\* bulk deletes and the absence polls.
C23_NoLayer ==
    \A i \in 1..Len(calls) :
        calls[i].op \in {"reconcile", "delete", "apply", "render_manifests",
                         "delete_many", "ensure_crd_is_deleted"}

C23_Witness ==
    /\ pc = "done"
    /\ event = "leader_elected"
    /\ is_leader
    /\ AppliedOk = Groups
    /\ Len(calls) = 4
    /\ status = ActiveStatus

Polled == {calls[i].target : i \in {j \in 1..Len(calls) :
                                      calls[j].op = "ensure_crd_is_deleted"}}

CoreDeleteIssued ==
    \E i \in 1..Len(calls) : calls[i].op = "delete_many" /\ calls[i].target = "k8s"

\* C24 as stated: when the core group is bulk-deleted in a removal, every CRD
\* name of the runtimes, JobSet and LeaderWorkerSet CRD files has been polled.
C24_WholeCrdGroupPolled ==
    (Handling({"_on_remove"}) /\ CoreDeleteIssued) =>
        Range(_extract_crds_names("CRD_RUNTIMES_RESOURCE_FILES")
                \o _extract_crds_names("CRD_JOBSET_RESOURCE_FILES")
                \o _extract_crds_names("CRD_LWS_RESOURCE_FILES")) \subseteq Polled

\* C24 amended: when the core group is bulk-deleted in a removal, the CRD names
\* of the TrainJob and of the runtimes CRD files have been polled and found
\* absent; no name of the JobSet or LeaderWorkerSet CRD files is ever polled.
C24_RuntimesOnlyPolled ==
    Handling({"_on_remove"}) =>
        /\ Polled \cap Range(_extract_crds_names("CRD_JOBSET_RESOURCE_FILES")
                               \o _extract_crds_names("CRD_LWS_RESOURCE_FILES")) = {}
        /\ CoreDeleteIssued =>
              /\ Polled = Range(_extract_crds_names("CRD_TRAINJOB_RESOURCE_FILES")
                                  \o _extract_crds_names("CRD_RUNTIMES_RESOURCE_FILES"))
              /\ \A i \in 1..Len(calls) :
                    calls[i].op = "ensure_crd_is_deleted" => Succeeded(calls[i])

C24_Witness ==
    /\ pc = "done"
    /\ event = "remove"
    /\ ~is_leader
    /\ LastCall.op = "delete_many"
    /\ LastCall.target = "k8s"
    /\ LastCall.resp.ok
    /\ Cardinality(Polled) = 3

Deletes == SelectSeq(calls, LAMBDA c : c.op = "delete_many")
DeleteTargets == [i \in 1..Len(Deletes) |-> Deletes[i].target]

NotFound(c) == c.op = "delete_many" /\ ~c.resp.ok /\ c.resp.code = CODE_NOT_FOUND

\* C25 as stated: whenever the remove handler ends with
\* Maintenance("K8S resources removed"), a bulk delete has been issued for the
\* TrainJob-CRD group, the CRD group and the core group.
C25_AllDeletesIssued ==
    (pc = "done" /\ event = "remove" /\ status = REMOVED_STATUS) =>
        DeleteTargets = <<"trainjob", "crd", "k8s">>

\* C25 amended: a 404 raised by a bulk delete ends the removal without an
\* error: it is the handler's last call, the steps after it are skipped and the
\* status becomes Maintenance("K8S resources removed"); so when the handler ends
\* with that status either the three bulk deletes have been issued or the last
\* one issued raised a 404.
C25_NotFoundEndsRemoval ==
    Handling({"_on_remove"}) =>
        /\ \A i \in 1..Len(calls) :
              NotFound(calls[i]) =>
                  /\ i = Len(calls)
                  /\ pc \in {"remove_end", "done"}
                  /\ raised = NoException
        /\ IsPrefix(DeleteTargets, <<"trainjob", "crd", "k8s">>)
        /\ (pc = "done" /\ status = REMOVED_STATUS) =>
              \/ Len(Deletes) = 3
              \/ NotFound(LastCall)

C25_Witness ==
    /\ pc = "done"
    /\ event = "remove"
    /\ status = REMOVED_STATUS
    /\ Len(Deletes) = 1
    /\ NotFound(LastCall)
    /\ {"crd", "k8s"} \subseteq cluster

\* C26: after a remove handling that ended with
\* Maintenance("K8S resources removed"), no object of the four groups and no
\* allow-all policy is left in the cluster.
C26_EverythingRemoved ==
    (pc = "done" /\ event = "remove" /\ status = REMOVED_STATUS) =>
        (cluster = {} /\ policies = {})

\* the calls of the running handler made through the handler of group g
Through(g) ==
    SelectSeq(calls, LAMBDA c :
        \/ c.op \in {"apply", "render_manifests", "delete_many"} /\ c.target = g
        \/ /\ c.op = "ensure_crd_is_deleted"
           /\ \E p \in EnsurePcs : PollingHandler(p) = g /\ c.target \in Range(PolledNames(p)))

\* a call of ensure_crd_is_deleted through the handler of group g is under way
Polling(g) ==
    /\ pc \in EnsurePcs
    /\ PollingHandler(pc) = g
    /\ elapsed > 0

\* C27 as stated: a charm instance constructs each resource handler at most
\* once and loads its generic resources at most once.
C27_RegisteredOnce ==
    \A g \in ResourceHandlers :
        /\ handlers[g].built <= 1
        /\ handlers[g].loaded <= 1

\* C27 amended: a charm instance constructs each resource handler at most once,
\* at its first access, and loads the generic resources at every access: once
\* for each apply, render, bulk delete and absence-poll call made through it.
C27_RegisteredAtEveryAccess ==
    \A g \in ResourceHandlers :
        /\ handlers[g].built <= 1
        /\ handlers[g].obj <=> handlers[g].built = 1
        /\ handlers[g].obj <=> handlers[g].loaded > 0
        /\ handlers[g].loaded = Len(Through(g)) + (IF Polling(g) THEN 1 ELSE 0)

C27_Witness ==
    /\ pc = "done"
    /\ event = "remove"
    /\ handlers["crd"].built = 1
    /\ handlers["crd"].loaded = 4
    /\ handlers["trainjob"].loaded = 3
    /\ handlers["k8s"].loaded = 2
    /\ handlers["runtimes"].loaded = 0

ApplyPcs == {"apply_crd", "apply_trainjob", "apply_k8s", "apply_runtimes"}

\* C28: while _apply_k8s_resources applies the groups the status is
\* Maintenance("Creating K8S resources"); once the four applies have succeeded
\* it is Maintenance("K8S resources created"); the install handler never ends
\* with Active, and after four successful applies it ends without an exception
\* with Maintenance("K8S resources created").
C28_ApplyStatuses ==
    /\ pc \in ApplyPcs => status = CREATING_K8S
    /\ pc = "set_active" => (status = CREATED_STATUS /\ AppliedOk = Groups)
    /\ (pc = "done" /\ event = "install") =>
          /\ status.name # "active"
          /\ AppliedOk = Groups => (status = CREATED_STATUS /\ raised = NoException)

C28_Witness ==
    /\ pc = "done"
    /\ event = "install"
    /\ is_leader
    /\ ~mesh_relation
    /\ AppliedOk = Groups
    /\ status = CREATED_STATUS
    /\ raised = NoException

Transient(resp) == PodNotReady(resp) \/ NoEndpoints(resp)

\* C29: an apply of the CRD, TrainJob-CRD or core group that fails with one of
\* the two transient conditions is a creation failure of that group:
\* GenericCharmRuntimeError leaves the handler and the status is not changed to
\* one of the two transient Maintenance statuses.
C29_TransientOnlyRuntimes ==
    \A g \in {"crd", "trainjob", "k8s"} :
        (ApplyFailedLast(g) /\ Transient(LastCall.resp)) =>
            /\ raised = GenericCharmRuntimeError(CreationFailed(g, LastCall.resp.message))
            /\ status = CREATING_K8S

C29_Witness ==
    /\ ApplyFailedLast("k8s")
    /\ PodNotReady(LastCall.resp)
    /\ NoEndpoints(LastCall.resp)
    /\ raised.type = "GenericCharmRuntimeError"
    /\ event = "config_changed"

\* a step that sets the status to Active
ActiveOnlyAtEnd ==
    (status' = ActiveStatus /\ (status # ActiveStatus \/ pc = "set_active")) =>
        /\ pc = "set_active"
        /\ pc' = "done"
        /\ Handling(ReconcileHandlers)
        /\ is_leader
        /\ raised' = NoException
        /\ AppliedOk = Groups
        /\ AllSucceeded

\* C30: the status is set to Active only by the last step of a reconcile
\* handling in which the unit is the leader and the four applies have returned
\* successfully; no step of install, remove or relation-broken and no failure
\* path sets it.
C30_ActiveOnlyAfterSuccess == [][ActiveOnlyAtEnd]_vars

C30_Witness ==
    /\ pc = "done"
    /\ event = "upgrade_charm"
    /\ is_leader
    /\ mesh_relation
    /\ Len(calls) = 5
    /\ AllSucceeded
    /\ status = ActiveStatus

\* a call of ensure_crd_is_deleted that an ApiError other than 404 has left
PollFailed(c) ==
    /\ c.op = "ensure_crd_is_deleted"
    /\ ~c.resp.ok
    /\ c.resp.code # CODE_NOT_FOUND

\* C31: a call of ensure_crd_is_deleted that ends with an ApiError other than
\* 404 ends at its first get: no poll was made before it and no time of the
\* 300 s budget has elapsed.
C31_ApiErrorRaisedAtOnce ==
    \A i \in 1..Len(calls) :
        PollFailed(calls[i]) =>
            /\ i = Len(calls)
            /\ attempts = 1
            /\ elapsed = 0

\* a step of, into or out of the handling of service-mesh relation-broken
RelationBrokenFrame ==
    (event = "relation_broken" \/ event' = "relation_broken") =>
        /\ status' = status
        /\ cluster' = cluster
        /\ is_leader' = is_leader
        /\ handlers' = NoHandlers
        /\ \A i \in 1..Len(calls') : IsPolicyDelete(calls'[i])
        /\ Len(calls') <= 1
        /\ ~is_leader => (calls' = <<>> /\ policies' = policies)
        /\ policies' \in {policies, {}}

\* C32: handling service-mesh relation-broken changes nothing but the allow-all
\* policies: the only call it can make is the policy manager's delete, made by
\* a leader; it makes no apply, render, bulk delete or poll, and the unit status
\* and the objects of the four groups are left as they were, on a leader and on
\* a non-leader.
C32_RelationBrokenFrame == [][RelationBrokenFrame]_vars

C32_Witness ==
    /\ pc = "done"
    /\ event = "relation_broken"
    /\ is_leader
    /\ Len(calls) = 1
    /\ Succeeded(LastCall)
    /\ policies = {}
    /\ cluster = Groups
    /\ status = ActiveStatus
    /\ raised = NoException

====
